---- MODULE Spec2Model ----
(***************************************************************************)
(* Personal Library Manager (src/library_manager.py).                      *)
(*                                                                         *)
(* The model follows one installation through any number of runs of        *)
(* main(): the two files library.json and library_backup.json, the list    *)
(* self.books, and the position of the process (stopped, in the menu       *)
(* loop, exited through choice 7, or ended by an uncaught exception).      *)
(*                                                                         *)
(* A file's content is the text a text-mode read returns, written as the   *)
(* sequence of its JSON tokens; white space (the indent=4 layout of        *)
(* json.dump) is not part of a token sequence.  A Python value read by     *)
(* json.load is a tagged record (JVal); a dict is the ordered sequence of  *)
(* its key/value pairs, as Python keeps and json.dump writes them.         *)
(***************************************************************************)
EXTENDS Integers, Sequences, FiniteSets, TLC

\* Largest number of elements add_book may grow self.books to.
MaxBooks == 2
\* Largest number of save_library and load_library calls, over the runs
\* followed, in which a file operation fails.
MaxFaults == 1

\* Year bounds tested by add_book.
MinYear == 1800
MaxYear == 2024

-----------------------------------------------------------------------------
(* Python values as json.load builds them.                                 *)

JStr(x)  == [k |-> "str",   s |-> x,  n |-> 0, items |-> <<>>]
JInt(i)  == [k |-> "int",   s |-> "", n |-> i, items |-> <<>>]
JBool(b) == [k |-> IF b THEN "true" ELSE "false", s |-> "", n |-> 0, items |-> <<>>]
JArr(xs) == [k |-> "arr",   s |-> "", n |-> 0, items |-> xs]
\* One key/value pair of a dict.
JPair(key, v) == [k |-> "pair", s |-> key, n |-> 0, items |-> <<v>>]
JObj(ps) == [k |-> "obj",   s |-> "", n |-> 0, items |-> ps]

\* The dict add_book builds: keys in the order of the literal.
Book(title, author, year, genre, read) ==
    JObj(<< JPair("title", JStr(title)), JPair("author", JStr(author)),
            JPair("year", JInt(year)), JPair("genre", JStr(genre)),
            JPair("read", JBool(read)) >>)

IsDict(v) == v.k = "obj"
IsStr(v)  == v.k = "str"
HasKey(v, key) == \E i \in 1..Len(v.items) : v.items[i].s = key
\* v[key] for a dict v that has the key.
Get(v, key) ==
    LET i == CHOOSE j \in 1..Len(v.items) : v.items[j].s = key
    IN  v.items[i].items[1]

\* d[key] = v on a dict's pair list: an existing key keeps its position.
DictPut(ps, key, v) ==
    IF \E i \in 1..Len(ps) : ps[i].s = key
    THEN [i \in 1..Len(ps) |-> IF ps[i].s = key THEN JPair(key, v) ELSE ps[i]]
    ELSE Append(ps, JPair(key, v))

-----------------------------------------------------------------------------
(* Files and JSON text.                                                    *)

Tok(kind)  == [k |-> kind,  s |-> "", n |-> 0]
TStr(x)    == [k |-> "str", s |-> x,  n |-> 0]
TInt(i)    == [k |-> "int", s |-> "", n |-> i]

Missing    == [exists |-> FALSE, text |-> <<>>]
File(toks) == [exists |-> TRUE,  text |-> toks]

RECURSIVE Dump(_)
RECURSIVE DumpItems(_, _)
\* The items of a list or dict, separated by commas.
DumpItems(xs, i) ==
    IF i > Len(xs) THEN <<>>
    ELSE (IF i > 1 THEN <<Tok(",")>> ELSE <<>>) \o Dump(xs[i]) \o DumpItems(xs, i + 1)
\* json.dump(v, f, indent=4, ensure_ascii=False): the tokens written.
Dump(v) ==
    CASE v.k = "arr"  -> <<Tok("[")>> \o DumpItems(v.items, 1) \o <<Tok("]")>>
      [] v.k = "obj"  -> <<Tok("{")>> \o DumpItems(v.items, 1) \o <<Tok("}")>>
      [] v.k = "pair" -> <<TStr(v.s), Tok(":")>> \o Dump(v.items[1])
      [] v.k = "str"  -> <<TStr(v.s)>>
      [] v.k = "int"  -> <<TInt(v.n)>>
      [] OTHER        -> <<Tok(v.k)>>

\* Variant of Serialize: the list is written inside an object, a format
\* load_library does not read back.
SerializeWrapped(bks) == Dump(JObj(<<JPair("books", JArr(bks))>>))

\* The text save_library writes for self.books.
Serialize(bks) == Dump(JArr(bks))

ParseFail == [ok |-> FALSE, val |-> JInt(0), pos |-> 0]
ParseOk(v, p) == [ok |-> TRUE, val |-> v, pos |-> p]
KindAt(toks, i) == IF i <= Len(toks) THEN toks[i].k ELSE "eof"

RECURSIVE ParseValue(_, _)
RECURSIVE ParseElems(_, _, _)
RECURSIVE ParseMembers(_, _, _)
\* The elements of an array after "[" or ",": value, then "," or "]".
ParseElems(toks, i, acc) ==
    LET r == ParseValue(toks, i) IN
    IF ~r.ok THEN ParseFail
    ELSE CASE KindAt(toks, r.pos) = "," -> ParseElems(toks, r.pos + 1, Append(acc, r.val))
           [] KindAt(toks, r.pos) = "]" -> ParseOk(JArr(Append(acc, r.val)), r.pos + 1)
           [] OTHER -> ParseFail
\* The members of an object after "{" or ",": string, ":", value, then "," or "}".
ParseMembers(toks, i, acc) ==
    IF KindAt(toks, i) # "str" \/ KindAt(toks, i + 1) # ":" THEN ParseFail
    ELSE LET r == ParseValue(toks, i + 2) IN
         IF ~r.ok THEN ParseFail
         ELSE CASE KindAt(toks, r.pos) = "," ->
                      ParseMembers(toks, r.pos + 1, DictPut(acc, toks[i].s, r.val))
                [] KindAt(toks, r.pos) = "}" ->
                      ParseOk(JObj(DictPut(acc, toks[i].s, r.val)), r.pos + 1)
                [] OTHER -> ParseFail
\* One JSON value starting at token i.
ParseValue(toks, i) ==
    CASE KindAt(toks, i) = "[" ->
             IF KindAt(toks, i + 1) = "]" THEN ParseOk(JArr(<<>>), i + 2)
             ELSE ParseElems(toks, i + 1, <<>>)
      [] KindAt(toks, i) = "{" ->
             IF KindAt(toks, i + 1) = "}" THEN ParseOk(JObj(<<>>), i + 2)
             ELSE ParseMembers(toks, i + 1, <<>>)
      [] KindAt(toks, i) = "str"   -> ParseOk(JStr(toks[i].s), i + 1)
      [] KindAt(toks, i) = "int"   -> ParseOk(JInt(toks[i].n), i + 1)
      [] KindAt(toks, i) = "true"  -> ParseOk(JBool(TRUE), i + 1)
      [] KindAt(toks, i) = "false" -> ParseOk(JBool(FALSE), i + 1)
      [] OTHER -> ParseFail

\* json.load(f): one value and nothing after it, else JSONDecodeError.
JsonLoad(toks) ==
    LET r == ParseValue(toks, 1) IN
    IF r.ok /\ r.pos = Len(toks) + 1 THEN r ELSE ParseFail

\* A file load_library can adopt: it exists and parses to a list.
HoldsList(f) == f.exists /\ JsonLoad(f.text).ok /\ JsonLoad(f.text).val.k = "arr"
ListOf(f) == JsonLoad(f.text).val.items

-----------------------------------------------------------------------------
(* Strings: str.strip, str.lower and the in operator on the strings used.  *)

Strip(x) ==
    CASE x = " Dune " -> "Dune"
      [] x = " HERB " -> "HERB"
      [] x = " YES "  -> "YES"
      [] x = " yes "  -> "yes"
      [] OTHER        -> x

Lower(x) ==
    CASE x = "Dune"          -> "dune"
      [] x = "DUNE"          -> "dune"
      [] x = "Emma"          -> "emma"
      [] x = "HERB"          -> "herb"
      [] x = " YES "         -> " yes "
      [] x = "Frank Herbert" -> "frank herbert"
      [] x = "Jane Austen"   -> "jane austen"
      [] OTHER               -> x

\* term in text, for lower-case strings.
Contains(term, text) ==
    \/ term = text
    \/ term = ""
    \/ <<term, text>> \in { <<"herb", "frank herbert">>, <<"ank her", "frank herbert">>,
                            <<"un", "dune">>, <<"jane", "jane austen">> }

-----------------------------------------------------------------------------
(* Inputs.                                                                 *)

\* One answer to "Enter publication year": digits with a value, or other text.
Num(i)  == [num |-> TRUE,  n |-> i]
NotNum  == [num |-> FALSE, n |-> 0]

\* The answers typed to the prompts of one add_book call; years holds every
\* answer to the year prompt, the last one being the first the loop accepts.
AddInputs ==
    { [title |-> " Dune ", author |-> "Frank Herbert",
       years |-> <<Num(MinYear - 1), Num(MinYear)>>, genre |-> "SciFi", read |-> " YES "],
      [title |-> "DUNE", author |-> "Frank Herbert",
       years |-> <<NotNum, Num(MaxYear + 1), Num(MaxYear)>>, genre |-> "SciFi", read |-> "no"] }

TitleInputs  == {" Dune ", "dune", "EMMA", "Ulysses"}
SearchInputs == {"dune", " HERB ", "ank her", "zzz"}
OtherChoices == {"8", "", "add"}

BDune == Book("Dune", "Frank Herbert", MinYear, "SciFi", TRUE)
BDUNE == Book("DUNE", "Frank Herbert", MaxYear, "SciFi", FALSE)
BEmma == Book("Emma", "Jane Austen", MinYear, "Novel", TRUE)

\* Texts that are not a JSON array: cut-off text, and an object.
Malformed    == <<Tok("{")>>
NotArray     == Dump(JObj(<<JPair("title", JStr("Dune"))>>))
InvalidTexts == {Malformed, NotArray}
\* An array whose first element is no record and whose second has no author.
OddArray     == Serialize(<<JInt(5), JObj(<<JPair("title", JStr("Dune"))>>), BEmma>>)

PrimaryAtStart ==
    {Missing} \cup {File(t) : t \in {Malformed, OddArray, Serialize(<<BEmma, BDune, BDUNE>>)}}
BackupAtStart ==
    {Missing} \cup {File(t) : t \in {NotArray, Serialize(<<BDUNE, BEmma>>)}}

-----------------------------------------------------------------------------
(* State.                                                                  *)

VARIABLES
    pc,          \* "stopped", "menu" (main's loop), "exited" (choice 7), "crashed"
    books,       \* self.books
    primary,     \* library.json
    backup,      \* library_backup.json
    last,        \* history: the last operation that set self.books or a file
    lastSave,    \* history: the most recent save_library call
    recovered,   \* history: load adopted the backup over an invalid primary,
                 \*          and save_library has not run since
    faults       \* history: calls so far in which a file operation failed

vars == <<pc, books, primary, backup, last, lastSave, recovered, faults>>

-----------------------------------------------------------------------------
(* save_library.                                                           *)

\* How one file step of save_library ends: done, the open failed (the target
\* is untouched), or the step failed after the target was opened for writing
\* (the target is left cut off).  "skip": the step was not attempted.
Modes == {"ok", "open", "trunc"}
NoFault == [b |-> "ok", w |-> "ok", r |-> "ok"]

\* Variant of BackupStep: an existing backup file is never overwritten.
BackupStepOnce(p, b, mode) ==
    IF ~p.exists \/ b.exists THEN b
    ELSE CASE mode = "ok"    -> File(p.text)
           [] mode = "trunc" -> File(<<>>)
           [] OTHER          -> b

\* Variant of BackupStep: only a primary that holds an array is copied.
BackupStepValidOnly(p, b, mode) ==
    IF ~p.exists \/ ~HoldsList(p) THEN b
    ELSE CASE mode = "ok"    -> File(p.text)
           [] mode = "trunc" -> File(<<>>)
           [] OTHER          -> b

\* Lines 150-156: the backup file after the copy of the primary.
BackupStep(p, b, mode) ==
    IF ~p.exists THEN b
    ELSE CASE mode = "ok"    -> File(p.text)
           [] mode = "trunc" -> File(<<>>)
           [] OTHER          -> b

\* Lines 159-160: the primary file after the write of self.books.
WriteStep(bks, p, mode) ==
    CASE mode = "ok"    -> File(Serialize(bks))
      [] mode = "trunc" -> File(<<>>)
      [] OTHER          -> p

\* Variant of RecoverStep: nothing is copied back.
RecoverStepNone(p, b, mode) == p

\* Lines 165-172: the primary file after the recovery from the backup.
RecoverStep(p, b, mode) ==
    IF ~b.exists THEN p
    ELSE CASE mode = "ok"    -> File(b.text)
           [] mode = "trunc" -> File(<<>>)
           [] OTHER          -> p

\* Variant of SaveLibrary: the backup copy is taken after the write of the
\* primary instead of before it.
SaveLibraryBackupLate(bks, p, b, f) ==
    LET p1 == WriteStep(bks, p, f.w)
        b1 == BackupStep(p1, b, f.b)
    IN  [primary |-> IF f.w = "ok" THEN p1 ELSE RecoverStep(p1, b1, f.r),
         backup  |-> b1]

\* The two files after save_library, for the list bks and the outcomes f.
SaveLibrary(bks, p, b, f) ==
    LET b1 == BackupStep(p, b, f.b)
        p1 == WriteStep(bks, p, f.w)
    IN  [primary |-> IF f.w = "ok" THEN p1 ELSE RecoverStep(p1, b1, f.r),
         backup  |-> b1]

\* No file operation of the call failed.
Clean(f) == f.b \in {"ok", "skip"} /\ f.w = "ok"

\* The outcomes save_library can meet from files p and b.
SaveFaults(p, b) ==
    { f \in [b : Modes \cup {"skip"}, w : Modes, r : Modes \cup {"skip"}] :
        /\ faults < MaxFaults \/ Clean(f)
        /\ (f.b = "skip") <=> ~p.exists
        /\ (f.r = "skip") <=> (f.w = "ok" \/ ~BackupStep(p, b, f.b).exists) }

\* The record of a save_library call: the list saved (lib), the primary
\* file before the call (pre), how its steps ended (f), whether it ran with
\* recovered set (first), how many calls in a row up to this one met no
\* failure and no outside change of the primary, counted to 2 (chain), and
\* whether the primary was replaced from outside since (tamp).
NoSave == [some |-> FALSE, lib |-> <<>>, pre |-> Missing, f |-> NoFault,
           tamp |-> FALSE, first |-> FALSE, chain |-> 0]

\* self.save_library() with self.books = bks, and the record of the call.
Save(bks, f) ==
    LET r == SaveLibrary(bks, primary, backup, f) IN
    /\ primary' = r.primary
    /\ backup' = r.backup
    /\ lastSave' = [some |-> TRUE, lib |-> bks, pre |-> primary, f |-> f,
                    tamp |-> FALSE, first |-> recovered,
                    chain |-> IF ~Clean(f) THEN 0
                              ELSE IF lastSave.chain > 0 /\ ~lastSave.tamp THEN 2 ELSE 1]
    /\ recovered' = FALSE
    /\ faults' = IF Clean(f) THEN faults ELSE faults + 1

NoSaveMade == UNCHANGED <<primary, backup, lastSave, recovered, faults>>

-----------------------------------------------------------------------------
(* load_library.                                                           *)

\* Variant of LoadLibrary: the backup file is never read.
LoadLibraryNoFallback(p, b, io) ==
    IF p.exists /\ io.p = "ok" /\ HoldsList(p)
    THEN [books |-> ListOf(p), src |-> "primary"]
    ELSE [books |-> <<>>, src |-> "empty"]

\* Variant of LoadLibrary: the backup file is tried before the primary.
LoadLibraryBackupFirst(p, b, io) ==
    IF b.exists /\ io.b # "fail" /\ HoldsList(b)
    THEN [books |-> ListOf(b), src |-> "backup"]
    ELSE IF p.exists /\ io.p = "ok" /\ HoldsList(p)
         THEN [books |-> ListOf(p), src |-> "primary"]
         ELSE [books |-> <<>>, src |-> "empty"]

\* Lines 182-217: the list adopted and where it came from.  io.p and io.b
\* say whether reading the file failed ("fail"), worked ("ok") or was not
\* attempted ("skip").
LoadLibrary(p, b, io) ==
    IF p.exists /\ io.p = "ok" /\ HoldsList(p)
    THEN [books |-> ListOf(p), src |-> "primary"]
    ELSE IF b.exists /\ io.b = "ok" /\ HoldsList(b)
         THEN [books |-> ListOf(b), src |-> "backup"]
         ELSE [books |-> <<>>, src |-> "empty"]

LoadFaults(p, b) ==
    { io \in [p : {"ok", "fail", "skip"}, b : {"ok", "fail", "skip"}] :
        /\ faults < MaxFaults \/ "fail" \notin {io.p, io.b}
        /\ (io.p = "skip") <=> ~p.exists
        /\ (io.b = "skip") <=> (~b.exists \/ (p.exists /\ io.p = "ok" /\ HoldsList(p))) }

NoIo == [p |-> "skip", b |-> "skip"]
Did(op, out) == [op |-> op, out |-> out, io |-> NoIo]

-----------------------------------------------------------------------------
(* The element accesses of the menu operations.  An element of self.books  *)
(* read from a file need not be a record; book["key"] raises on a value    *)
(* that is no dict or lacks the key, and .lower() on a value that is no    *)
(* string.  None of the four operations below catches it.                  *)

Keys == {"title", "author", "year", "genre", "read"}
HasStr(b, key) == IsDict(b) /\ HasKey(b, key) /\ IsStr(Get(b, key))

\* Line 67: book["title"] and .lower() raise on an element without a
\* string title.
TitleRaises(b) == ~HasStr(b, "title")
\* Variant of TitleMatches: the comparison without .lower().
TitleMatchesExact(b, t) == Get(b, "title").s = t
\* Line 67: book["title"].lower() == title.lower()
TitleMatches(b, t) == Lower(Get(b, "title").s) = Lower(t)

RECURSIVE Scan(_, _, _)
\* Lines 66-73: the loop of remove_book from index i on: the first index
\* whose title matches ("hit"), none ("miss"), or an access that raises.
Scan(bks, t, i) ==
    IF i > Len(bks) THEN [out |-> "miss", at |-> 0]
    ELSE IF TitleRaises(bks[i]) THEN [out |-> "raise", at |-> i]
    ELSE IF TitleMatches(bks[i], t) THEN [out |-> "hit", at |-> i]
    ELSE Scan(bks, t, i + 1)

\* self.books.pop(i)
Pop(bks, i) == SubSeq(bks, 1, i - 1) \o SubSeq(bks, i + 1, Len(bks))

\* Line 88: the test of search_books on one element.
SearchRaises(b, term) ==
    \/ ~HasStr(b, "title")
    \/ ~Contains(term, Lower(Get(b, "title").s)) /\ ~HasStr(b, "author")

\* Lines 136-141: _display_books reads the five keys of each element.
DisplayRaises(b) == ~IsDict(b) \/ \E key \in Keys : ~HasKey(b, key)

\* Lines 114 and 125-127: display_statistics reads "read", then uses
\* "genre" as a dict key, which a list or dict cannot be.
StatsRaises(b) ==
    \/ ~IsDict(b) \/ ~HasKey(b, "read") \/ ~HasKey(b, "genre")
    \/ Get(b, "genre").k \in {"arr", "obj"}

\* Lines 25-32: the year loop returns the first answer that is a number
\* in [MinYear, MaxYear].
YearOk(y) == y.num /\ MinYear <= y.n /\ y.n <= MaxYear
YearLoop(ys) == ys[CHOOSE i \in 1..Len(ys) :
                      YearOk(ys[i]) /\ \A j \in 1..(i - 1) : ~YearOk(ys[j])].n

\* Lines 20-46: the record add_book builds from the answers.
NewBook(inp) ==
    Book(Strip(inp.title), Strip(inp.author), YearLoop(inp.years),
         Strip(inp.genre), Strip(Lower(inp.read)) = "yes")

-----------------------------------------------------------------------------
(* Operations.                                                             *)

Init ==
    /\ pc = "stopped"
    /\ books = <<>>
    /\ primary \in PrimaryAtStart
    /\ backup \in BackupAtStart
    /\ last = Did("none", "")
    /\ lastSave = NoSave
    /\ recovered = FALSE
    /\ faults = 0

\* main, line 244: LibraryManager() runs __init__, which calls load_library.
Start(io) ==
    /\ pc # "menu"
    /\ LET r == LoadLibrary(primary, backup, io) IN
       /\ books' = r.books
       /\ last' = [op |-> "load", out |-> r.src, io |-> io]
       /\ recovered' = (r.src = "backup" /\ io.p = "ok")
    /\ faults' = IF "fail" \in {io.p, io.b} THEN faults + 1 ELSE faults
    /\ pc' = "menu"
    /\ UNCHANGED <<primary, backup, lastSave>>

\* Choice 1: add_book.
AddBook(inp, f) ==
    /\ pc = "menu"
    /\ Len(books) < MaxBooks
    /\ books' = Append(books, NewBook(inp))
    /\ Save(books', f)
    /\ last' = Did("add", "added")
    /\ UNCHANGED pc

\* Variant of RemoveHit: the record is popped and save_library not called.
RemoveHitNoSave(raw, f) ==
    /\ pc = "menu"
    /\ books # <<>>
    /\ LET r == Scan(books, Strip(raw), 1) IN
       /\ r.out = "hit"
       /\ books' = Pop(books, r.at)
    /\ f \in SaveFaults(primary, backup)
    /\ NoSaveMade
    /\ last' = Did("remove", "removed")
    /\ UNCHANGED pc

\* Choice 2: remove_book, on a list that is not empty, when the loop
\* reaches a record whose title matches.
RemoveHit(raw, f) ==
    /\ pc = "menu"
    /\ books # <<>>
    /\ LET r == Scan(books, Strip(raw), 1) IN
       /\ r.out = "hit"
       /\ books' = Pop(books, r.at)
    /\ Save(books', f)
    /\ last' = Did("remove", "removed")
    /\ UNCHANGED pc

\* Choice 2: remove_book otherwise: the list is empty, no title matches,
\* or an element access raises before a match.
RemoveOther(raw) ==
    /\ pc = "menu"
    /\ LET r == Scan(books, Strip(raw), 1) IN
       /\ r.out # "hit"
       /\ pc' = IF r.out = "raise" THEN "crashed" ELSE pc
    /\ NoSaveMade
    /\ UNCHANGED <<books, last>>

\* Choice 3: search_books.
SearchBooks(raw) ==
    /\ pc = "menu"
    /\ LET term == Lower(Strip(raw))
           raises == \E i \in 1..Len(books) : SearchRaises(books[i], term)
       IN  pc' = IF raises THEN "crashed" ELSE pc
    /\ NoSaveMade
    /\ UNCHANGED <<books, last>>

\* Choice 4: display_all_books.
DisplayAllBooks ==
    /\ pc = "menu"
    /\ LET raises == \E i \in 1..Len(books) : DisplayRaises(books[i])
       IN  pc' = IF raises THEN "crashed" ELSE pc
    /\ NoSaveMade
    /\ UNCHANGED <<books, last>>

\* Choice 5: display_statistics.
DisplayStatistics ==
    /\ pc = "menu"
    /\ LET raises == \E i \in 1..Len(books) : StatsRaises(books[i])
       IN  pc' = IF raises THEN "crashed" ELSE pc
    /\ NoSaveMade
    /\ UNCHANGED <<books, last>>

\* Choice 6: export_to_txt.  The whole body is inside try/except, so a
\* failing open and an element access that raises are both reported and
\* the call returns.  The report file is written and never read, and is
\* not part of the state.
ExportToTxt(mode) ==
    /\ pc = "menu"
    /\ mode = "open" \/ mode = "ok"
    /\ NoSaveMade
    /\ UNCHANGED <<pc, books, last>>

\* Choice 7: save once more, then leave the loop.
Exit(f) ==
    /\ pc = "menu"
    /\ Save(books, f)
    /\ last' = Did("exit", "saved")
    /\ pc' = "exited"
    /\ UNCHANGED books

\* Any other choice.
InvalidChoice(c) ==
    /\ pc = "menu"
    /\ c \notin {"1", "2", "3", "4", "5", "6", "7"}
    /\ NoSaveMade
    /\ UNCHANGED <<pc, books, last>>

\* Between two runs, after a save that met no failure, something outside
\* the program replaces the primary file with text that is no JSON array.
Corrupt(t) ==
    /\ pc # "menu"
    /\ lastSave.some /\ Clean(lastSave.f) /\ ~lastSave.tamp
    /\ primary' = File(t)
    /\ lastSave' = [lastSave EXCEPT !.tamp = TRUE]
    /\ last' = Did("corrupt", "")
    /\ UNCHANGED <<pc, books, backup, recovered, faults>>

Next ==
    \/ \E io \in LoadFaults(primary, backup) : Start(io)
    \/ \E inp \in AddInputs, f \in SaveFaults(primary, backup) : AddBook(inp, f)
    \/ \E raw \in TitleInputs, f \in SaveFaults(primary, backup) : RemoveHit(raw, f)
    \/ \E raw \in TitleInputs : RemoveOther(raw)
    \/ \E raw \in SearchInputs : SearchBooks(raw)
    \/ DisplayAllBooks
    \/ DisplayStatistics
    \/ \E mode \in {"ok", "open"} : ExportToTxt(mode)
    \/ \E f \in SaveFaults(primary, backup) : Exit(f)
    \/ \E c \in OtherChoices : InvalidChoice(c)
    \/ \E t \in InvalidTexts : Corrupt(t)

Spec == Init /\ [][Next]_vars

-----------------------------------------------------------------------------
(* Properties.                                                             *)

\* A step that runs add_book, a removing remove_book, or choice 7; the
\* outcomes of its save_library call are the ones the step records.
SaveStep ==
    \/ \E inp \in AddInputs : AddBook(inp, lastSave'.f)
    \/ \E raw \in TitleInputs : RemoveHit(raw, lastSave'.f)
    \/ Exit(lastSave'.f)

\* The state is the one save_library left: no load and no outside change since.
JustSaved == last.op \in {"add", "remove", "exit"}
\* The state is the one load_library left, and no read of a file failed.
JustLoaded == last.op = "load" /\ "fail" \notin {last.io.p, last.io.b}

\* C1: after two consecutive saves without I/O failure, of libraries L1 and
\* then L2, the backup file holds the serialized L1 and the primary file the
\* serialized L2.
C1_BackupInvariant ==
    [][ (/\ lastSave.some /\ Clean(lastSave.f) /\ ~lastSave.tamp
         /\ Clean(lastSave'.f)
         /\ SaveStep)
        => /\ backup' = File(Serialize(lastSave.lib))
           /\ primary' = File(Serialize(books')) ]_vars
C1_Witness ==
    /\ JustSaved /\ lastSave.chain = 2
    /\ backup.exists /\ primary = File(Serialize(books))
    /\ HoldsList(backup) /\ ListOf(backup) # books

\* C2 as stated: after every save, whatever failed in it and whether or not
\* the primary existed, a backup file that exists holds what the primary
\* held just before that save.
C2_BackupAlwaysPreSave ==
    (lastSave.some /\ backup.exists) => backup = lastSave.pre
\* C2 amended: after a save that found the primary file and whose backup
\* copy did not fail, the backup file exists and holds what the primary held
\* just before that save.
C2_BackupAfterCopy ==
    (lastSave.some /\ lastSave.f.b = "ok")
    => (backup.exists /\ lastSave.pre.exists /\ backup = lastSave.pre)
C2_Witness ==
    /\ JustSaved /\ lastSave.f.b = "ok" /\ lastSave.f.w = "ok"
    /\ backup = lastSave.pre /\ backup # primary /\ books # <<>>

\* C3 as stated: a load that follows successful saves and an outside
\* replacement of the primary by invalid text adopts the backup file and
\* never starts empty.
C3_AlwaysRecovers ==
    (JustLoaded /\ lastSave.some /\ lastSave.tamp /\ Clean(lastSave.f))
    => (last.out = "backup" /\ books = ListOf(backup))
\* C3 amended: such a load adopts the backup left by the last successful
\* save when the primary held an array before that save, the list adopted
\* being that array; when the primary held invalid text before that save the
\* backup holds it too and the load starts empty.
C3_RecoversWhenBackupValid ==
    (JustLoaded /\ lastSave.some /\ lastSave.tamp /\ Clean(lastSave.f))
    => /\ HoldsList(lastSave.pre)
          => (last.out = "backup" /\ books = ListOf(lastSave.pre))
       /\ (lastSave.pre.exists /\ ~HoldsList(lastSave.pre))
          => (last.out = "empty" /\ books = <<>>)
C3_Witness ==
    /\ JustLoaded /\ lastSave.tamp /\ Clean(lastSave.f)
    /\ ~HoldsList(primary) /\ HoldsList(lastSave.pre)
    /\ last.out = "backup" /\ books # <<>> /\ books # lastSave.lib

\* C4: a save without I/O failure followed by a load yields the library
\* that was saved: the same records in the same order with the same field
\* values, whatever the backup file holds.
C4_RoundTrip ==
    (JustLoaded /\ lastSave.some /\ Clean(lastSave.f) /\ ~lastSave.tamp)
    => (last.out = "primary" /\ books = lastSave.lib)
C4_Witness ==
    /\ JustLoaded /\ lastSave.some /\ Clean(lastSave.f) /\ ~lastSave.tamp
    /\ Len(books) >= 2 /\ books = lastSave.lib
    /\ \E i \in 1..Len(books) : HasKey(books[i], "read") /\ Get(books[i], "read") = JBool(FALSE)

\* C5 as stated: whatever the files hold at startup and whatever is typed,
\* no exception leaves an operation; the process ends only through choice 7.
C5_NoUncaughtException == pc # "crashed"

\* C6 as stated: when the write of the primary fails and the copy back from
\* the backup succeeds, the primary holds the backup's content, which is
\* what the primary held before the save.
C6_FailedSaveRestoresPreSave ==
    (JustSaved /\ lastSave.f.w # "ok" /\ lastSave.f.r = "ok")
    => (primary = backup /\ primary = lastSave.pre)
\* C6 amended: when the write of the primary fails and the copy back from
\* the backup succeeds, the primary holds the backup's content; it is what
\* the primary held before the save when the primary existed then and the
\* backup copy of this save succeeded.
C6_FailedSaveRestoresBackup ==
    (JustSaved /\ lastSave.f.w # "ok" /\ lastSave.f.r = "ok")
    => /\ primary = backup
       /\ lastSave.f.b = "ok" => primary = lastSave.pre
C6_Witness ==
    /\ JustSaved /\ lastSave.f.b = "ok" /\ lastSave.f.w = "trunc" /\ lastSave.f.r = "ok"
    /\ primary = lastSave.pre /\ primary # File(Serialize(books))

\* C7: in the menu loop, every step that changes the library, and choice 7,
\* saves: when the save meets no failure the primary file holds the
\* serialized library; every other step leaves both files as they were.
C7_FlushAfterMutation ==
    [][ pc = "menu"
        => IF books' # books \/ pc' = "exited"
           THEN Clean(lastSave'.f) => primary' = File(Serialize(books'))
           ELSE UNCHANGED <<primary, backup>> ]_vars
C7_Witness ==
    /\ last.op = "remove" /\ pc = "menu" /\ Clean(lastSave.f)
    /\ primary = File(Serialize(books)) /\ books # <<>>
    /\ lastSave.pre # primary

\* The title of element i of the library equals t ignoring case.
SameTitle(i, t) == HasStr(books[i], "title") /\ Lower(Get(books[i], "title").s) = Lower(t)
\* remove_book reads the title of a record: every element it reaches has one.
ReachesRecordsOnly(t) ==
    \A i \in 1..Len(books) :
        (\A j \in 1..(i - 1) : ~SameTitle(j, t)) => HasStr(books[i], "title")

Usable(file, read) == file.exists /\ read # "fail" /\ HoldsList(file)

\* C9: load_library adopts the primary's array when the primary exists and
\* parses to an array, without consulting the backup; otherwise the backup's
\* array when the backup exists and parses to an array; otherwise the empty
\* list.  It writes to neither file.
C9_LoadPrecedence ==
    [][ (pc # "menu" /\ pc' = "menu")
        => /\ UNCHANGED <<primary, backup>>
           /\ IF Usable(primary, last'.io.p)
              THEN books' = ListOf(primary) /\ last'.io.b = "skip"
              ELSE IF Usable(backup, last'.io.b)
                   THEN books' = ListOf(backup)
                   ELSE books' = <<>> ]_vars
C9_Witness ==
    /\ last.op = "load" /\ last.out = "backup" /\ last.io.p = "ok"
    /\ primary.exists /\ books = ListOf(backup) /\ books # <<>>

\* C10: the first save after a load that adopted the backup over an invalid
\* primary, when its backup copy succeeds, leaves the invalid text in the
\* backup file; the library is then in the primary just written, and if
\* that write fails neither file holds an array, the copy back restoring the
\* invalid text.
C10_SaveAfterRecovery ==
    (JustSaved /\ lastSave.first /\ lastSave.f.b = "ok")
    => /\ lastSave.pre.exists /\ ~HoldsList(lastSave.pre)
       /\ backup = lastSave.pre
       /\ lastSave.f.w = "ok" => primary = File(Serialize(books))
       /\ lastSave.f.w # "ok"
          => /\ ~HoldsList(primary) /\ ~HoldsList(backup)
             /\ lastSave.f.r = "ok" => primary = lastSave.pre
C10_Witness ==
    /\ JustSaved /\ lastSave.first /\ Clean(lastSave.f)
    /\ ~HoldsList(backup) /\ HoldsList(primary) /\ books # <<>>

====
